---------------------------- MODULE Spec2Model ----------------------------
(***************************************************************************)
(* A model of src/index.js, the pull-request status notifier: the entry    *)
(* guard, the promise chain of scanChecksAndPostGif (comment cleanup, the  *)
(* check-runs poll, the gif search and the comment POST), the 5 second     *)
(* re-poll timer and the 300 second global timer, together with the pull   *)
(* request (its comments and the check runs of the commit) the calls act   *)
(* on.  Each action is one turn of the event loop: the arrival of one HTTP *)
(* response or the expiry of one timer, with every continuation chained on *)
(* it by .then().                                                          *)
(***************************************************************************)
EXTENDS Integers, Sequences, FiniteSets, TLC

\* ------------------------------------------------------------------ bounds
MaxRuns == 2
MaxComments == 2
MaxChecks == 2
MaxPolls == 2

\* ------------------------------------------------------- program constants
WAIT_MS == 5000
MAX_TIMEOUT_MS == 300000
WORKFLOW_NEUTRAL == 78
EXIT_OK == 0
EXIT_ERROR == 1

Runs == 1..MaxRuns

\* Text is a sequence of characters.
commentFooter == <<"<", "s", "u", "b", ">", ";", ")", "<", "/", "s", "u", "b", ">">>

githubAction == "self"

\* NEUTRAL_ERROR_CODE = process.env.GITHUB_WORKFLOW ? 78 : 0
NEUTRAL_ERROR_CODE(workflow) == IF workflow THEN WORKFLOW_NEUTRAL ELSE 0

\* Mutant: the text is only looked for at the start (startsWith).
Includes_StartsWith(s, sub) == Len(sub) <= Len(s) /\ SubSeq(s, 1, Len(sub)) = sub

\* String.prototype.includes: some index at which sub occurs in s.
Includes(s, sub) ==
  \E i \in 0..(Len(s) - Len(sub)) : SubSeq(s, i + 1, i + Len(sub)) = sub

Range(arr) == {arr[i] : i \in 1..Len(arr)}

\* ------------------------------------------------------ the pure functions
\* Mutant: no check run is taken for the action's own.
NotOwnCheck_KeepAll(cr) == TRUE

\* cr => cr.name !== githubAction
NotOwnCheck(cr) == cr.name # githubAction

\* Mutant: every completed run that did not succeed counts as failed.
IsFailedCheck_NotSuccess(cr) == cr.status = "completed" /\ cr.conclusion # "success"

\* cr => cr.status === 'completed' && cr.conclusion === 'failure'
IsFailedCheck(cr) == cr.status = "completed" /\ cr.conclusion = "failure"

\* Mutant: a queued run is not counted as in progress.
IsInProgressCheck_NotQueued(cr) == cr.status = "in_progress"

\* cr => cr.status === 'queued' || cr.status === 'in_progress'
IsInProgressCheck(cr) == cr.status = "queued" \/ cr.status = "in_progress"

\* Mutant: the checks still running are looked at before the failed ones.
getStatusOfChecks_InProgressFirst(check_runs) ==
  LET filteredChecks == SelectSeq(check_runs, NotOwnCheck)
      failedChecks == SelectSeq(filteredChecks, IsFailedCheck)
      inProgressChecks == SelectSeq(filteredChecks, IsInProgressCheck)
  IN  IF Len(inProgressChecks) # 0 THEN "IN_PROGRESS"
      ELSE IF Len(failedChecks) # 0 THEN "FAILURE"
      ELSE "SUCCESS"

\* Mutant: the action's own check run is not filtered out.
getStatusOfChecks_NoSelfFilter(check_runs) ==
  LET failedChecks == SelectSeq(check_runs, IsFailedCheck)
      inProgressChecks == SelectSeq(check_runs, IsInProgressCheck)
  IN  IF Len(failedChecks) # 0 THEN "FAILURE"
      ELSE IF Len(inProgressChecks) # 0 THEN "IN_PROGRESS"
      ELSE "SUCCESS"

getStatusOfChecks(check_runs) ==
  LET filteredChecks == SelectSeq(check_runs, NotOwnCheck)
      failedChecks == SelectSeq(filteredChecks, IsFailedCheck)
      inProgressChecks == SelectSeq(filteredChecks, IsInProgressCheck)
  IN  IF Len(failedChecks) # 0 THEN "FAILURE"
      ELSE IF Len(inProgressChecks) # 0 THEN "IN_PROGRESS"
      ELSE "SUCCESS"

\* comment => comment.body.includes(commentFooter)
IsFromAction(comment) == Includes(comment.body, commentFooter)

\* Mutant: only the first comment of the action is deleted.
deleteCommentsFromAction_OnlyFirst(comments) ==
  LET filteredComments == SelectSeq(comments, IsFromAction)
  IN  IF filteredComments = << >> THEN << >> ELSE <<Head(filteredComments)>>

\* Mutant: no comment is taken for one of the action.
deleteCommentsFromAction_None(comments) == SelectSeq(comments, LAMBDA c : FALSE)

\* The comments deleteCommentsFromAction issues a DELETE for.
deleteCommentsFromAction(comments) == SelectSeq(comments, IsFromAction)

\* Mutant: the body is the image alone, without the footer.
postCommentWithGif_NoFooter(gif) ==
  <<"!", "[">> \o gif.title \o <<"]", "(">> \o gif.webp \o <<")">>

\* `![${gif.title}](${gif.images.original.webp})\n${commentFooter}`
postCommentWithGif(gif) ==
  <<"!", "[">> \o gif.title \o <<"]", "(">> \o gif.webp \o <<")", "\n">> \o commentFooter

\* Mutant: the two tags are swapped.
TagOfStatus_Swapped(status) ==
  CASE status = "FAILURE" -> "thumbs-up"
    [] status = "SUCCESS" -> "thumbs-down"
    [] status = "IN_PROGRESS" -> "wait"
    [] OTHER -> "none"

\* The switch of scanChecksAndPostGif: the giphy tag of a status, "wait" for the
\* re-poll, "none" for a status no case matches (the switch has no default).
TagOfStatus(status) ==
  CASE status = "FAILURE" -> "thumbs-down"
    [] status = "SUCCESS" -> "thumbs-up"
    [] status = "IN_PROGRESS" -> "wait"
    [] OTHER -> "none"

\* Mutant: only a missing payload is skipped.
GuardSkips_MissingOnly(ev) == ev = "none"

\* The entry guard: !githubEvent || (action !== 'synchronize' && action !== 'opened')
GuardSkips(ev) == ev = "none" \/ (ev # "synchronize" /\ ev # "opened")

\* ------------------------------------------------------------ input domains
\* The action of the event payload; "none" is a missing payload ('').
Events == {"none", "opened", "synchronize", "closed"}

Text_hi == <<"h", "i">>
Text_ok == <<"o", "k", " ">> \o commentFooter
Text_sub == <<"<", "s", "u", "b", ">">>
InitBodies == {Text_hi, Text_ok, Text_sub}

\* What the image search may answer: giphyRes.data.data.
Gifs == { [title |-> <<"y", "e", "s">>, webp |-> <<"u">>],
          [title |-> << >>, webp |-> <<"v">>] }

CheckNames == {githubAction, "build"}

\* The pull request's comments as the run finds them: ids 1..n in creation order.
InitComments ==
  UNION { { [i \in 1..n |-> [id |-> i, body |-> b[i]]] : b \in [1..n -> InitBodies] }
          : n \in 0..MaxComments }

\* The commit's check runs while a run is under way: the first n of the action's
\* own run, which is in progress, and the other checks, queued as they are created.
CheckRunAt(i) ==
  IF i = 1 THEN [name |-> githubAction, status |-> "in_progress", conclusion |-> "none"]
  ELSE [name |-> "build", status |-> "queued", conclusion |-> "none"]

InitCheckRuns == { [i \in 1..n |-> CheckRunAt(i)] : n \in 0..MaxChecks }

\* Every check run the aggregation may be handed.
CheckRun ==
  [name : CheckNames, status : {"queued", "in_progress", "completed"},
   conclusion : {"none", "success", "failure", "neutral"}]

AllCheckRuns == UNION { [1..n -> CheckRun] : n \in 0..MaxChecks }

\* -------------------------------------------------------------------- state
VARIABLES
  prComments,   \* the pull request's comments on the server, in creation order
  nextId,       \* the id the server gives the next comment
  checkRuns,    \* the commit's check runs on the server
  clock,        \* milliseconds since the first process started
  pc,           \* per run: the call or timer the promise chain is suspended on
  exitCode,     \* per run: the code given to process.exit, -1 while running
  githubEvent,  \* per run: the action of the event payload
  workflow,     \* per run: whether GITHUB_WORKFLOW is set
  deadline,     \* per run: when the global timer expires
  waitUntil,    \* per run: when the re-poll timer expires
  listed,       \* per run: res.data of the last comment listing
  dels,         \* per run: ids of the comments whose DELETE is in flight
  data,         \* per run: data.check_runs of the last check-runs response
  status,       \* per run: the last aggregate status
  tag,          \* per run: the giphy tag of the search issued
  postInFlight, \* per run: the body of the POST in flight, << >> if none
  created,      \* per run: ids of the comments its POSTs created
  calls,        \* per run: how many calls of each kind it issued
  waits,        \* per run: how many re-poll waits elapsed
  deleteLog,    \* per run: the ids it issued a DELETE for in this pass, in order
  outcome,      \* per run: what ended the process, and the call or timer it was on
  rejected      \* per run: the call that was rejected, "none" if none was

serverVars == <<prComments, nextId, checkRuns>>
envVars == <<githubEvent, workflow>>
exitVars == <<exitCode, outcome, rejected>>
chainVars == <<listed, dels, data, status, tag, postInFlight, deleteLog>>
vars == <<prComments, nextId, checkRuns, clock, pc, exitCode, githubEvent, workflow,
          deadline, waitUntil, listed, dels, data, status, tag, postInFlight,
          created, calls, waits, deleteLog, outcome, rejected>>

NoOutcome == [by |-> "none", at |-> "none"]

NoCalls == [list |-> 0, del |-> 0, fetch |-> 0, gif |-> 0, post |-> 0]

Running(r) == pc[r] \notin {"idle", "exited"}

InitRun ==
  /\ pc = [r \in Runs |-> "idle"]
  /\ exitCode = [r \in Runs |-> -1]
  /\ githubEvent = [r \in Runs |-> "none"]
  /\ workflow = [r \in Runs |-> FALSE]
  /\ deadline = [r \in Runs |-> 0]
  /\ waitUntil = [r \in Runs |-> 0]
  /\ listed = [r \in Runs |-> << >>]
  /\ dels = [r \in Runs |-> {}]
  /\ data = [r \in Runs |-> << >>]
  /\ status = [r \in Runs |-> "none"]
  /\ tag = [r \in Runs |-> "none"]
  /\ postInFlight = [r \in Runs |-> << >>]
  /\ created = [r \in Runs |-> {}]
  /\ calls = [r \in Runs |-> NoCalls]
  /\ waits = [r \in Runs |-> 0]
  /\ deleteLog = [r \in Runs |-> << >>]
  /\ outcome = [r \in Runs |-> NoOutcome]
  /\ rejected = [r \in Runs |-> "none"]

Init ==
  /\ prComments \in InitComments
  /\ nextId = Len(prComments) + 1
  /\ checkRuns \in InitCheckRuns
  /\ clock = 0
  /\ InitRun

\* ------------------------------------------------------------------ actions
\* process.exit(code): the timers and the pending continuations die with it.
\* by is what called it: the entry guard ("skip"), the end of the chain ("done",
\* or "unmatched" when the switch matched nothing), the catch or the global timer.
Exit(r, code, by) ==
  /\ pc' = [pc EXCEPT ![r] = "exited"]
  /\ exitCode' = [exitCode EXCEPT ![r] = code]
  /\ outcome' = [outcome EXCEPT ![r] = [by |-> by, at |-> pc[r]]]
  /\ rejected' = [rejected EXCEPT ![r] = IF by = "catch" THEN pc[r] ELSE @]

\* scanChecksAndPostGif() up to its first suspension: deleteExistingComments()
\* calls getIssueComments(), which issues the GET of the comments.
scanChecksAndPostGif(r) ==
  /\ pc' = [pc EXCEPT ![r] = "listing"]
  /\ calls' = [calls EXCEPT ![r].list = @ + 1]

\* fetchChecks(): the GET of the check runs is issued.
fetchChecks(r) ==
  /\ pc' = [pc EXCEPT ![r] = "fetching"]
  /\ calls' = [calls EXCEPT ![r].fetch = @ + 1]

\* The module's top level: the entry guard, the first scanChecksAndPostGif()
\* and the global timer.
Main(r) ==
  /\ pc[r] = "idle"
  /\ \E ev \in Events, wf \in BOOLEAN :
       /\ githubEvent' = [githubEvent EXCEPT ![r] = ev]
       /\ workflow' = [workflow EXCEPT ![r] = wf]
       /\ IF GuardSkips(ev)
          THEN /\ Exit(r, NEUTRAL_ERROR_CODE(wf), "skip")
               /\ UNCHANGED <<calls, deadline>>
          ELSE /\ scanChecksAndPostGif(r)
               /\ deadline' = [deadline EXCEPT ![r] = clock + MAX_TIMEOUT_MS]
               /\ UNCHANGED exitVars
  /\ UNCHANGED <<serverVars, clock, waitUntil, chainVars, created, waits>>

\* The comment listing answers: deleteCommentsFromAction(res.data), then either
\* the DELETEs are issued together or, with nothing to delete, fetchChecks().
getIssueCommentsResp(r) ==
  /\ pc[r] = "listing"
  /\ LET filteredComments == deleteCommentsFromAction(prComments)
         ids == [i \in 1..Len(filteredComments) |-> filteredComments[i].id]
     IN  /\ listed' = [listed EXCEPT ![r] = prComments]
         /\ deleteLog' = [deleteLog EXCEPT ![r] = ids]
         /\ dels' = [dels EXCEPT ![r] = Range(ids)]
         /\ IF Len(filteredComments) = 0
            THEN fetchChecks(r)
            ELSE /\ pc' = [pc EXCEPT ![r] = "deleting"]
                 /\ calls' = [calls EXCEPT ![r].del = @ + Len(filteredComments)]
  /\ UNCHANGED <<serverVars, clock, exitVars, envVars, deadline, waitUntil, data,
                 status, tag, postInFlight, created, waits>>

RemoveComment(comments, id) == SelectSeq(comments, LAMBDA c : c.id # id)

\* Mutant: the chain goes on with the first DELETE that answers (Promise.race).
deleteCommentResp_NoJoin(r, id) ==
  /\ pc[r] = "deleting"
  /\ id \in dels[r]
  /\ \E i \in 1..Len(prComments) : prComments[i].id = id
  /\ prComments' = RemoveComment(prComments, id)
  /\ dels' = [dels EXCEPT ![r] = @ \ {id}]
  /\ fetchChecks(r)
  /\ UNCHANGED <<nextId, checkRuns, clock, exitVars, envVars, deadline, waitUntil,
                 listed, data, status, tag, postInFlight, created, waits, deleteLog>>

\* One DELETE answers; Promise.all resolves with the last one and the chain
\* goes on to fetchChecks().
deleteCommentResp(r, id) ==
  /\ pc[r] = "deleting"
  /\ id \in dels[r]
  /\ \E i \in 1..Len(prComments) : prComments[i].id = id
  /\ prComments' = RemoveComment(prComments, id)
  /\ dels' = [dels EXCEPT ![r] = @ \ {id}]
  /\ IF dels[r] = {id}
     THEN fetchChecks(r)
     ELSE UNCHANGED <<pc, calls>>
  /\ UNCHANGED <<nextId, checkRuns, clock, exitVars, envVars, deadline, waitUntil,
                 listed, data, status, tag, postInFlight, created, waits, deleteLog>>

\* The check-runs listing answers: getStatusOfChecks(res), then the switch.
fetchChecksResp(r) ==
  /\ pc[r] = "fetching"
  /\ LET st == getStatusOfChecks(checkRuns)
         giphyTag == TagOfStatus(st)
     IN  /\ data' = [data EXCEPT ![r] = checkRuns]
         /\ status' = [status EXCEPT ![r] = st]
         /\ CASE giphyTag = "wait" ->
                   \* new Promise(resolve => setTimeout(resolve, 5000))
                   /\ pc' = [pc EXCEPT ![r] = "waiting"]
                   /\ waitUntil' = [waitUntil EXCEPT ![r] = clock + WAIT_MS]
                   /\ UNCHANGED <<exitVars, tag, calls>>
              [] giphyTag = "none" ->
                   \* no case matches: the chain resolves and the process exits
                   /\ Exit(r, EXIT_OK, "unmatched")
                   /\ UNCHANGED <<waitUntil, tag, calls>>
              [] OTHER ->
                   \* postGiphyGifForTag(tag): getGiphyGifForTag issues the search
                   /\ pc' = [pc EXCEPT ![r] = "gifSearch"]
                   /\ tag' = [tag EXCEPT ![r] = giphyTag]
                   /\ calls' = [calls EXCEPT ![r].gif = @ + 1]
                   /\ UNCHANGED <<exitVars, waitUntil>>
  /\ UNCHANGED <<serverVars, clock, envVars, deadline, listed, dels, postInFlight,
                 created, waits, deleteLog>>

\* Mutant: after the wait only the check runs are fetched again.
waitElapsed_RefetchOnly(r) ==
  /\ pc[r] = "waiting"
  /\ clock >= waitUntil[r]
  /\ waits[r] < MaxPolls
  /\ fetchChecks(r)
  /\ waits' = [waits EXCEPT ![r] = @ + 1]
  /\ UNCHANGED <<serverVars, clock, exitVars, envVars, deadline, waitUntil, chainVars,
                 created>>

\* The re-poll timer expires: .then(scanChecksAndPostGif).
waitElapsed(r) ==
  /\ pc[r] = "waiting"
  /\ clock >= waitUntil[r]
  /\ waits[r] < MaxPolls
  /\ scanChecksAndPostGif(r)
  /\ waits' = [waits EXCEPT ![r] = @ + 1]
  /\ UNCHANGED <<serverVars, clock, exitVars, envVars, deadline, waitUntil, chainVars,
                 created>>

\* The image search answers: postCommentWithGif(gif) issues the POST.
getGiphyGifForTagResp(r) ==
  /\ pc[r] = "gifSearch"
  /\ \E gif \in Gifs :
       postInFlight' = [postInFlight EXCEPT ![r] = <<postCommentWithGif(gif)>>]
  /\ pc' = [pc EXCEPT ![r] = "posting"]
  /\ calls' = [calls EXCEPT ![r].post = @ + 1]
  /\ UNCHANGED <<serverVars, clock, exitVars, envVars, deadline, waitUntil, listed,
                 dels, data, status, tag, created, waits, deleteLog>>

\* The server creates the comment of a POST.
CreateComment(r) ==
  /\ prComments' = Append(prComments, [id |-> nextId, body |-> postInFlight[r][1]])
  /\ nextId' = nextId + 1
  /\ created' = [created EXCEPT ![r] = @ \cup {nextId}]
  /\ postInFlight' = [postInFlight EXCEPT ![r] = << >>]

\* Mutant: the case of the switch falls through to a new pass.
postCommentResp_Rescan(r) ==
  /\ pc[r] = "posting"
  /\ CreateComment(r)
  /\ scanChecksAndPostGif(r)
  /\ UNCHANGED <<checkRuns, clock, exitVars, envVars, deadline, waitUntil, listed,
                 dels, data, status, tag, waits, deleteLog>>

\* Mutant: the end of the chain reports a failure.
postCommentResp_ExitError(r) ==
  /\ pc[r] = "posting"
  /\ CreateComment(r)
  /\ Exit(r, EXIT_ERROR, "done")
  /\ UNCHANGED <<checkRuns, clock, envVars, deadline, waitUntil, listed, dels, data,
                 status, tag, calls, waits, deleteLog>>

\* The POST answers: .then(() => process.exit(0)).
postCommentResp(r) ==
  /\ pc[r] = "posting"
  /\ CreateComment(r)
  /\ Exit(r, EXIT_OK, "done")
  /\ UNCHANGED <<checkRuns, clock, envVars, deadline, waitUntil, listed, dels, data,
                 status, tag, calls, waits, deleteLog>>

\* Mutant: a rejected call makes the chain start over.
httpReject_Retry(r) ==
  /\ pc[r] \in {"listing", "deleting", "fetching", "gifSearch", "posting"}
  /\ rejected' = [rejected EXCEPT ![r] = pc[r]]
  /\ scanChecksAndPostGif(r)
  /\ UNCHANGED <<serverVars, clock, exitCode, outcome, envVars, deadline, waitUntil,
                 chainVars, created, waits>>

\* Mutant: the catch ends the process with code 0.
httpReject_ExitOk(r) ==
  /\ pc[r] \in {"listing", "deleting", "fetching", "gifSearch", "posting"}
  /\ Exit(r, EXIT_OK, "catch")
  /\ UNCHANGED <<serverVars, clock, envVars, deadline, waitUntil, chainVars, created,
                 calls, waits>>

\* Mutant: the catch sends a comment before it ends the process.
httpReject_PostsGif(r) ==
  /\ pc[r] \in {"listing", "deleting", "fetching", "gifSearch", "posting"}
  /\ Exit(r, EXIT_ERROR, "catch")
  /\ \E gif \in Gifs :
       postInFlight' = [postInFlight EXCEPT ![r] = <<postCommentWithGif(gif)>>]
  /\ UNCHANGED <<serverVars, clock, envVars, deadline, waitUntil, listed, dels, data,
                 status, tag, deleteLog, created, calls, waits>>

\* The call in flight is rejected: .catch(error => process.exit(1)).  Calls
\* already sent (the other DELETEs, the POST) stay with the server.
httpReject(r) ==
  /\ pc[r] \in {"listing", "deleting", "fetching", "gifSearch", "posting"}
  /\ Exit(r, EXIT_ERROR, "catch")
  /\ UNCHANGED <<serverVars, clock, envVars, deadline, waitUntil, chainVars, created,
                 calls, waits>>

\* Mutant: the global timer ends the process with code 0.
maxTimeout_ExitOk(r) ==
  /\ Running(r)
  /\ clock >= deadline[r]
  /\ Exit(r, EXIT_OK, "timeout")
  /\ UNCHANGED <<serverVars, clock, envVars, deadline, waitUntil, chainVars, created,
                 calls, waits>>

\* Mutant: the global timer is cleared by the first call that is issued, and
\* set again for the wait between two polls.
maxTimeout_WaitsOnly(r) ==
  /\ pc[r] = "waiting"
  /\ clock >= deadline[r]
  /\ Exit(r, EXIT_ERROR, "timeout")
  /\ UNCHANGED <<serverVars, clock, envVars, deadline, waitUntil, chainVars, created,
                 calls, waits>>

\* setTimeout(() => process.exit(1), 300000)
maxTimeout(r) ==
  /\ Running(r)
  /\ clock >= deadline[r]
  /\ Exit(r, EXIT_ERROR, "timeout")
  /\ UNCHANGED <<serverVars, clock, envVars, deadline, waitUntil, chainVars, created,
                 calls, waits>>

\* A DELETE sent by a process that has exited since reaches the server.
orphanDelete(r, id) ==
  /\ pc[r] = "exited"
  /\ id \in dels[r]
  /\ prComments' = RemoveComment(prComments, id)
  /\ dels' = [dels EXCEPT ![r] = @ \ {id}]
  /\ UNCHANGED <<nextId, checkRuns, clock, pc, exitVars, envVars, deadline, waitUntil,
                 listed, data, status, tag, postInFlight, created, calls, waits,
                 deleteLog>>

\* A POST sent by a process that has exited since reaches the server.
orphanPost(r) ==
  /\ pc[r] = "exited"
  /\ postInFlight[r] # << >>
  /\ CreateComment(r)
  /\ UNCHANGED <<checkRuns, clock, pc, exitVars, envVars, deadline, waitUntil, listed,
                 dels, data, status, tag, calls, waits, deleteLog>>

\* Another check of the commit moves on: queued, in_progress, completed.
checkRunAdvance(i) ==
  /\ i \in 1..Len(checkRuns)
  /\ checkRuns[i].name # githubAction
  /\ \/ /\ checkRuns[i].status = "queued"
        /\ checkRuns' = [checkRuns EXCEPT ![i].status = "in_progress"]
     \/ /\ checkRuns[i].status = "in_progress"
        /\ \E c \in {"success", "failure"} :
             checkRuns' = [checkRuns EXCEPT ![i].status = "completed",
                                            ![i].conclusion = c]
  /\ UNCHANGED <<prComments, nextId, clock, pc, exitVars, envVars, deadline, waitUntil,
                 chainVars, created, calls, waits>>

\* The timers of the running processes that have yet to expire.
PendingExpiries ==
  { deadline[r] : r \in {q \in Runs : Running(q)} }
    \cup { waitUntil[r] : r \in {q \in Runs : pc[q] = "waiting"} }

\* Time passes, up to the next expiry of a timer.  A response may arrive at any
\* instant; the instants kept are those at which a timer expires, so a call in
\* flight either answers before the next expiry or is still in flight at it.
Tick ==
  /\ \E t \in PendingExpiries :
       /\ t > clock
       /\ \A u \in PendingExpiries : u > clock => t <= u
       /\ clock' = t
  /\ UNCHANGED <<serverVars, pc, exitVars, envVars, deadline, waitUntil, chainVars,
                 created, calls, waits>>

\* What the calls of one process come to: an answer, a rejection, or the server
\* acting on a call the process no longer waits for.
Answers(r) ==
  \/ getIssueCommentsResp(r)
  \/ \E id \in dels[r] : deleteCommentResp(r, id)
  \/ fetchChecksResp(r)
  \/ getGiphyGifForTagResp(r)
  \/ postCommentResp(r)
  \/ httpReject(r)
  \/ \E id \in dels[r] : orphanDelete(r, id)
  \/ orphanPost(r)

\* The promise chain of one process: its calls and its two timers.
Chain(r) == Answers(r) \/ waitElapsed(r) \/ maxTimeout(r)

\* One process.
Step(r) == Main(r) \/ Chain(r)

\* A single run on the pull request.
Next ==
  \/ Step(1)
  \/ \E i \in 1..MaxChecks : checkRunAdvance(i)
  \/ Tick

Spec == Init /\ [][Next]_vars

\* The single run once more, for the claims on the promise chain and on the
\* way it ends: the same steps from the same starts.
SpecChain == Init /\ [][Next]_vars

\* A pull request whose comments at the start are all comments of the action:
\* the first cleanup issues a DELETE for each comment it lists.
InitMarked == Init /\ \A i \in DOMAIN prComments : IsFromAction(prComments[i])

\* The single run with its timers: time does not stop, and the callback of the
\* global timer runs once the timer has expired.  Nothing is assumed of the
\* servers, whose answers may never come.
SpecTimers == InitMarked /\ [][Next]_vars /\ WF_vars(Tick) /\ WF_vars(maxTimeout(1))

\* The single run with servers that answer: the image search and the POST of the
\* comment get their answer unless the process ends first.
SpecAnswers ==
  /\ InitMarked /\ [][Next]_vars
  /\ WF_vars(getGiphyGifForTagResp(1)) /\ WF_vars(postCommentResp(1))

\* Runs one after the other on the pull request: a process starts once the run
\* before it has completed.
InTurn(r) == IF r = 1 THEN TRUE ELSE outcome[r - 1].by = "done"

MainInTurn(r) == InTurn(r) /\ Main(r)

NextSeq ==
  \/ \E r \in Runs : MainInTurn(r) \/ Chain(r)
  \/ \E i \in 1..MaxChecks : checkRunAdvance(i)
  \/ Tick

SpecSeq == Init /\ [][NextSeq]_vars

\* Two processes started on the same pull request, over the time before a timer
\* of either expires: their calls interleave in any order.
Pair == {1, 2}

NextTwo ==
  \/ \E r \in Pair : Main(r) \/ Answers(r)
  \/ \E i \in 1..MaxChecks : checkRunAdvance(i)

SpecTwo == InitMarked /\ [][NextTwo]_vars

\* ------------------------------------------------- the aggregation on its own
\* A run suspended on its first check-runs fetch, the pull request without
\* comments, the commit with any collection of check runs.
InitChecks ==
  /\ prComments = << >>
  /\ nextId = 1
  /\ checkRuns \in AllCheckRuns
  /\ clock = 0
  /\ pc = [r \in Runs |-> IF r = 1 THEN "fetching" ELSE "idle"]
  /\ exitCode = [r \in Runs |-> -1]
  /\ githubEvent = [r \in Runs |-> IF r = 1 THEN "opened" ELSE "none"]
  /\ workflow = [r \in Runs |-> FALSE]
  /\ deadline = [r \in Runs |-> IF r = 1 THEN MAX_TIMEOUT_MS ELSE 0]
  /\ waitUntil = [r \in Runs |-> 0]
  /\ listed = [r \in Runs |-> << >>]
  /\ dels = [r \in Runs |-> {}]
  /\ data = [r \in Runs |-> << >>]
  /\ status = [r \in Runs |-> "none"]
  /\ tag = [r \in Runs |-> "none"]
  /\ postInFlight = [r \in Runs |-> << >>]
  /\ created = [r \in Runs |-> {}]
  /\ calls = [r \in Runs |-> IF r = 1 THEN [NoCalls EXCEPT !.list = 1, !.fetch = 1]
                                        ELSE NoCalls]
  /\ waits = [r \in Runs |-> 0]
  /\ deleteLog = [r \in Runs |-> << >>]
  /\ outcome = [r \in Runs |-> NoOutcome]
  /\ rejected = [r \in Runs |-> "none"]

NextChecks == fetchChecksResp(1)

SpecChecks == InitChecks /\ [][NextChecks]_vars

\* ------------------------------------------------------------------- claims
\* The text holds the footer marker: it is a prefix, the marker, a suffix.
BearsMarker(body) ==
  \E k \in 1..(Len(body) - Len(commentFooter) + 1) :
    \A j \in 1..Len(commentFooter) : body[k + j - 1] = commentFooter[j]

\* The comments on the pull request that bear the marker.
MarkerComments == { i \in DOMAIN prComments : BearsMarker(prComments[i].body) }

\* Run 1 passed the entry guard.
Started == pc[1] # "idle" /\ githubEvent[1] \in {"opened", "synchronize"}

\* Run 1 reached DONE: its comment is posted and it exited with code 0.
Done == pc[1] = "exited" /\ exitCode[1] = EXIT_OK /\ created[1] # {}

\* C1: when the run, the only writer on the pull request, completes, at most one
\* comment bearing the footer marker exists on the pull request, however many
\* there were at the start and however many re-polls happened.
C1_AtMostOneMarker == Done => Cardinality(MarkerComments) <= 1

C1_Witness ==
  /\ Done
  /\ calls[1].del = 2
  /\ waits[1] >= 1
  /\ Cardinality(MarkerComments) = 1

\* C2 as stated: a run that passed the entry guard lists the comments once, and a
\* re-poll after IN_PROGRESS does not return to the cleanup.
C2_CleanupOnce == Started => calls[1].list = 1

\* C2 as amended: the cleanup is performed once per pass, before each fetch of the
\* check runs: after every elapsed wait the comments are listed again, and the
\* check runs are fetched only at the end of the cleanup of the same pass.
C2_CleanupEachPass ==
  Started =>
    /\ calls[1].list = waits[1] + 1
    /\ pc[1] \in {"listing", "deleting"} => calls[1].fetch = calls[1].list - 1
    /\ pc[1] \in {"fetching", "waiting", "gifSearch", "posting"}
         => calls[1].fetch = calls[1].list
    /\ calls[1].fetch \in {calls[1].list - 1, calls[1].list}

C2_Witness ==
  /\ Started
  /\ waits[1] >= 1
  /\ pc[1] = "fetching"
  /\ calls[1].list = 2
  /\ calls[1].fetch = 2

\* The check-runs response of run 1 has been aggregated.
Aggregated == status[1] # "none"

\* The runs of the response that are not the action's own.
OtherRuns == { i \in DOMAIN data[1] : data[1][i].name # githubAction }

FailedOthers ==
  { i \in OtherRuns : data[1][i].status = "completed" /\ data[1][i].conclusion = "failure" }

PendingOthers == { i \in OtherRuns : data[1][i].status \in {"queued", "in_progress"} }

\* C3: a collection that, the action's own run set aside, holds a run completed
\* with conclusion failure aggregates to FAILURE, whatever the other runs are.
C3_FailureWins == (Aggregated /\ FailedOthers # {}) => status[1] = "FAILURE"

C3_Witness ==
  /\ Aggregated
  /\ FailedOthers # {}
  /\ PendingOthers # {}
  /\ status[1] = "FAILURE"

\* C4: a collection that, the action's own run set aside, holds no run completed
\* with conclusion failure and at least one queued or in_progress run aggregates
\* to IN_PROGRESS.
C4_InProgress ==
  (Aggregated /\ FailedOthers = {} /\ PendingOthers # {}) => status[1] = "IN_PROGRESS"

C4_Witness ==
  /\ Aggregated
  /\ FailedOthers = {}
  /\ \E i \in PendingOthers : data[1][i].status = "queued"
  /\ PendingOthers = OtherRuns
  /\ status[1] = "IN_PROGRESS"

\* C5: a collection that, the action's own run set aside, is empty or holds only
\* runs completed with a conclusion other than failure aggregates to SUCCESS, and
\* the aggregate is always one of FAILURE, IN_PROGRESS, SUCCESS.
C5_Success ==
  Aggregated =>
    /\ status[1] \in {"FAILURE", "IN_PROGRESS", "SUCCESS"}
    /\ (\A i \in OtherRuns : /\ data[1][i].status = "completed"
                             /\ data[1][i].conclusion # "failure")
         => status[1] = "SUCCESS"

C5_Witness ==
  /\ Aggregated
  /\ \E i \in OtherRuns : data[1][i].conclusion = "neutral"
  /\ \A i \in OtherRuns : /\ data[1][i].status = "completed"
                          /\ data[1][i].conclusion # "failure"
  /\ status[1] = "SUCCESS"

\* The sequence without its i-th element.
Without(arr, i) == SubSeq(arr, 1, i - 1) \o SubSeq(arr, i + 1, Len(arr))

\* C6: the action's own check run never influences the aggregate: the aggregate
\* of a collection holding such a run, of any status and conclusion, is the
\* aggregate of the collection without it.
C6_SelfExcluded ==
  Aggregated =>
    \A i \in DOMAIN data[1] :
      data[1][i].name = githubAction
        => status[1] = getStatusOfChecks(Without(data[1], i))

C6_Witness ==
  /\ Aggregated
  /\ \E i \in DOMAIN data[1] :
       /\ data[1][i].name = githubAction
       /\ data[1][i].status = "completed"
       /\ data[1][i].conclusion = "failure"
  /\ \E i \in DOMAIN data[1] :
       /\ data[1][i].name = githubAction
       /\ data[1][i].status = "in_progress"
  /\ status[1] = "SUCCESS"

\* How many times id occurs in the sequence.
Occurrences(arr, id) == Cardinality({ i \in DOMAIN arr : arr[i] = id })

\* C7: a cleanup pass issues one DELETE for each listed comment whose body holds
\* the footer marker and none for any other comment; the comments without the
\* marker stay on the pull request; with no marker comment listed no DELETE is
\* issued.
C7_DeletesExactlyMarked ==
  /\ \A i \in DOMAIN listed[1] :
       IF BearsMarker(listed[1][i].body)
       THEN Occurrences(deleteLog[1], listed[1][i].id) = 1
       ELSE /\ Occurrences(deleteLog[1], listed[1][i].id) = 0
            /\ listed[1][i] \in Range(prComments)
  /\ Range(deleteLog[1]) \subseteq { listed[1][i].id : i \in DOMAIN listed[1] }
  /\ dels[1] \subseteq Range(deleteLog[1])
  /\ calls[1].list = 1 => calls[1].del = Len(deleteLog[1])

C7_Witness ==
  /\ listed[1] = <<[id |-> 1, body |-> Text_hi], [id |-> 2, body |-> Text_ok]>>
  /\ deleteLog[1] = <<2>>
  /\ prComments = <<[id |-> 1, body |-> Text_hi]>>
  /\ pc[1] = "fetching"

\* C8: with the event payload missing or its action neither "opened" nor
\* "synchronize" the run exits with the neutral code (78 under a workflow, else 0)
\* and issues no API call; a run issues calls only for "opened" or "synchronize".
C8_EntryGuard ==
  pc[1] # "idle" =>
    /\ githubEvent[1] \notin {"opened", "synchronize"} =>
         /\ pc[1] = "exited"
         /\ exitCode[1] = (IF workflow[1] THEN 78 ELSE 0)
         /\ calls[1] = NoCalls
         /\ created[1] = {} /\ dels[1] = {} /\ postInFlight[1] = << >>
    /\ calls[1] # NoCalls => githubEvent[1] \in {"opened", "synchronize"}

C8_Witness ==
  /\ pc[1] = "exited"
  /\ githubEvent[1] = "closed"
  /\ workflow[1]
  /\ exitCode[1] = 78
  /\ calls[1] = NoCalls

\* C9: when every poll so far returned IN_PROGRESS and the 300 seconds since the
\* start have passed, no gif search or comment POST has been issued by the run,
\* and the run, once the global timer has fired, has exited with code 1.
C9_TimeoutWhileInProgress ==
  (Started /\ status[1] = "IN_PROGRESS" /\ clock >= deadline[1]) =>
    /\ calls[1].post = 0 /\ calls[1].gif = 0 /\ created[1] = {}
    /\ pc[1] = "exited" => exitCode[1] = EXIT_ERROR

C9_Witness ==
  /\ Started
  /\ status[1] = "IN_PROGRESS"
  /\ waits[1] >= 1
  /\ clock >= MAX_TIMEOUT_MS
  /\ pc[1] = "exited"
  /\ exitCode[1] = EXIT_ERROR
  /\ calls[1].post = 0

\* C10: a gif search and a comment POST are issued only on a terminal status, with
\* tag "thumbs-down" exactly for FAILURE and "thumbs-up" exactly for SUCCESS; on
\* IN_PROGRESS neither is issued, only the 5 second wait and then the re-poll.
C10_TagOfTerminalStatus ==
  /\ calls[1].gif >= 1 =>
       /\ status[1] \in {"FAILURE", "SUCCESS"}
       /\ tag[1] = "thumbs-down" <=> status[1] = "FAILURE"
       /\ tag[1] = "thumbs-up" <=> status[1] = "SUCCESS"
  /\ calls[1].post >= 1 => calls[1].gif >= 1
  /\ status[1] \in {"none", "IN_PROGRESS"} =>
       /\ calls[1].gif = 0 /\ calls[1].post = 0 /\ tag[1] = "none"
       /\ pc[1] \notin {"gifSearch", "posting"}
  /\ pc[1] = "waiting" =>
       /\ status[1] = "IN_PROGRESS"
       /\ waitUntil[1] <= clock + WAIT_MS

C10_Witness ==
  /\ calls[1].post = 1
  /\ tag[1] = "thumbs-down"
  /\ status[1] = "FAILURE"
  /\ waits[1] >= 1
  /\ created[1] # {}

\* The aggregate of the last poll is terminal.
Terminal == status[1] \in {"FAILURE", "SUCCESS"}

\* The ids of the comments on the pull request.
CommentIds == { prComments[i].id : i \in DOMAIN prComments }

\* The action's own run in progress and another check completed with success.
SelfAndPassed ==
  <<[name |-> githubAction, status |-> "in_progress", conclusion |-> "none"],
    [name |-> "build", status |-> "completed", conclusion |-> "success"]>>

C12_RejectionIsFatal ==
  /\ rejected[1] # "none" =>
       /\ pc[1] = "exited"
       /\ exitCode[1] = EXIT_ERROR
       /\ outcome[1] = [by |-> "catch", at |-> rejected[1]]
       /\ calls[1].list = waits[1] + 1
       /\ rejected[1] \in {"listing", "deleting"} =>
            /\ calls[1].fetch = calls[1].list - 1
            /\ calls[1].gif = 0 /\ calls[1].post = 0
       /\ rejected[1] = "fetching" =>
            /\ calls[1].fetch = calls[1].list
            /\ calls[1].gif = 0 /\ calls[1].post = 0
       /\ rejected[1] = "gifSearch" => calls[1].gif = 1 /\ calls[1].post = 0
       /\ rejected[1] = "posting" => calls[1].gif = 1 /\ calls[1].post = 1
  /\ calls[1].gif <= 1
  /\ calls[1].post <= 1
  /\ calls[1].list <= waits[1] + 1
  /\ calls[1].fetch <= waits[1] + 1

C12_Witness ==
  /\ rejected[1] = "gifSearch"
  /\ pc[1] = "exited"
  /\ exitCode[1] = EXIT_ERROR
  /\ waits[1] >= 1
  /\ calls[1].gif = 1
  /\ calls[1].post = 0

\* C13: the DELETEs of a pass are in flight together and joined: whatever the
\* order in which they answer, the check runs are not fetched while one of them
\* is in flight, and only once all of them succeeded; one rejected DELETE ends
\* the run with code 1 without a fetch of the check runs or a POST.
C13_DeletesJoined ==
  /\ pc[1] = "deleting" =>
       /\ dels[1] # {}
       /\ dels[1] \subseteq Range(deleteLog[1])
       /\ (Range(deleteLog[1]) \ dels[1]) \cap CommentIds = {}
  /\ dels[1] # {} => calls[1].fetch = calls[1].list - 1
  /\ pc[1] \in {"fetching", "waiting", "gifSearch", "posting"} =>
       /\ dels[1] = {}
       /\ Range(deleteLog[1]) \cap CommentIds = {}
  /\ rejected[1] = "deleting" =>
       /\ exitCode[1] = EXIT_ERROR
       /\ calls[1].fetch = calls[1].list - 1
       /\ calls[1].gif = 0 /\ calls[1].post = 0 /\ created[1] = {}

C13_Witness ==
  /\ rejected[1] = "deleting"
  /\ deleteLog[1] = <<1, 2>>
  /\ dels[1] = {1}
  /\ 2 \notin CommentIds
  /\ exitCode[1] = EXIT_ERROR
  /\ calls[1].fetch = 0

\* C14: a run that passed the entry guard exits with code 0 only when the whole
\* pipeline completed in it (the cleanup succeeded, a terminal status was
\* computed, the POST answered); a rejected call and the global timer give 1.
C14_NoPartialSuccess ==
  (Started /\ pc[1] = "exited") =>
    /\ exitCode[1] \in {EXIT_OK, EXIT_ERROR}
    /\ exitCode[1] = EXIT_OK <=> outcome[1].by = "done"
    /\ outcome[1].by \in {"catch", "timeout"} => exitCode[1] = EXIT_ERROR
    /\ outcome[1].by = "done" =>
         /\ rejected[1] = "none"
         /\ dels[1] = {} /\ Range(deleteLog[1]) \cap CommentIds = {}
         /\ Terminal
         /\ calls[1].post = 1 /\ postInFlight[1] = << >>
         /\ Cardinality(created[1]) = 1 /\ created[1] \subseteq CommentIds

C14_Witness ==
  /\ Started
  /\ pc[1] = "exited"
  /\ outcome[1] = [by |-> "timeout", at |-> "posting"]
  /\ exitCode[1] = EXIT_ERROR
  /\ Terminal

\* The image as markdown, the gif's title as alt text, then the footer on a new
\* line.
IsGifComment(body) ==
  \E gif \in Gifs :
    /\ Len(body) = Len(gif.title) + Len(gif.webp) + Len(commentFooter) + 6
    /\ SubSeq(body, 1, 2) = <<"!", "[">>
    /\ SubSeq(body, 3, 2 + Len(gif.title)) = gif.title
    /\ SubSeq(body, 3 + Len(gif.title), 4 + Len(gif.title)) = <<"]", "(">>
    /\ SubSeq(body, 5 + Len(gif.title), 4 + Len(gif.title) + Len(gif.webp)) = gif.webp
    /\ SubSeq(body, Len(body) - Len(commentFooter) - 1, Len(body))
         = <<")", "\n">> \o commentFooter

\* C15: every comment a run posts is the markdown image followed by a newline and
\* the footer marker, so it bears the marker; over runs that follow one another
\* the comment of a run is selected and deleted by the cleanup of the next, and
\* at most one marker comment is left once a run has completed.
C15_PostedThenCleaned ==
  /\ \A r \in Runs : \A i \in DOMAIN prComments :
       prComments[i].id \in created[r] =>
         /\ IsGifComment(prComments[i].body)
         /\ BearsMarker(prComments[i].body)
  /\ \A r \in Runs : postInFlight[r] # << >> => IsGifComment(postInFlight[r][1])
  /\ \A r \in Runs \ {1} :
       /\ (calls[r].list = 1 /\ pc[r] = "deleting")
            => created[r - 1] \subseteq Range(deleteLog[r])
       /\ calls[r].fetch >= 1 => created[r - 1] \cap CommentIds = {}
  /\ (\E r \in Runs : outcome[r].by = "done") => Cardinality(MarkerComments) <= 1

C15_Witness ==
  /\ outcome[1].by = "done"
  /\ outcome[2].by = "done"
  /\ created[1] # {} /\ created[1] \cap CommentIds = {}
  /\ created[2] \subseteq CommentIds
  /\ Cardinality(MarkerComments) = 1

\* The ids of the comments on the pull request that bear the marker.
MarkerIds == { prComments[i].id : i \in MarkerComments }

\* The ids of the comments the last listing of run r returned.
ListedIds(r) == { listed[r][i].id : i \in DOMAIN listed[r] }

\* The two runs completed: each posted its comment and exited with code 0.
AllDone == \A r \in Pair : outcome[r].by = "done"

\* The comments of the two runs that the other run did not have in its listing.
Unlisted ==
  { id \in UNION { created[r] : r \in Pair } :
      \A r \in Pair : id \in created[r] =>
        \A q \in Pair \ {r} : id \notin ListedIds(q) }

\* C16: two runs interleaved on one pull request are not coordinated.  Once
\* both have completed, the marker comments left are the comments of the runs
\* that the other run did not list, so two runs that each listed the comments
\* before the other posted leave two marker comments (the state of C16_Witness).
C16_LeftoverIsUnlisted == AllDone => MarkerIds = Unlisted

C16_Witness ==
  /\ outcome[1].by = "done"
  /\ outcome[2].by = "done"
  /\ Cardinality(MarkerIds) = 2
  /\ MarkerIds = created[1] \cup created[2]

\* C17: every run terminates.  Once the process has started, whatever the
\* servers do (a call never answered, checks in progress for ever), it exits,
\* and with code 0, the neutral code or 1, given that time passes and that the
\* global timer's callback runs when the timer expires.
C17_Terminates ==
  (pc[1] # "idle") ~>
     (pc[1] = "exited" /\ exitCode[1] \in {EXIT_OK, WORKFLOW_NEUTRAL, EXIT_ERROR})

C17_Witness ==
  /\ outcome[1] = [by |-> "timeout", at |-> "listing"]
  /\ calls[1] = [NoCalls EXCEPT !.list = 1]
  /\ clock = MAX_TIMEOUT_MS
  /\ exitCode[1] = EXIT_ERROR

\* Run 1 ended on a rejected call or on the global timer.
Failed == outcome[1].by \in {"catch", "timeout"}

\* Run 1 completed with one gif comment posted and exit code 0.
PostedOnce ==
  /\ outcome[1].by = "done"
  /\ exitCode[1] = EXIT_OK
  /\ calls[1].post = 1
  /\ Cardinality(created[1]) = 1
  /\ \A i \in DOMAIN prComments :
       prComments[i].id \in created[1] => IsGifComment(prComments[i].body)

\* C18: once a poll returns a terminal aggregate status, the run posts exactly
\* one gif comment and exits with code 0, unless a call is rejected or the
\* global timer fires first; and at that poll every earlier poll returned
\* IN_PROGRESS and was followed by one wait of the fixed delay.
C18_TerminalPollPosts ==
  /\ [](Terminal => /\ calls[1].fetch = waits[1] + 1
                    /\ clock >= waits[1] * WAIT_MS
                    /\ calls[1].post <= 1)
  /\ [](outcome[1].by = "done" => Terminal /\ PostedOnce)
  /\ (Terminal ~> (PostedOnce \/ Failed))

C18_Witness ==
  /\ PostedOnce
  /\ status[1] = "FAILURE"
  /\ waits[1] = MaxPolls
  /\ calls[1].fetch = MaxPolls + 1
  /\ clock = MaxPolls * WAIT_MS
  /\ rejected[1] = "none"

\* C19 as stated, in the case it names: a run that the global timer ends with
\* code 1, be it with the POST of its comment in flight, has created no comment.
C19_FailedLeavesNoComment ==
  (exitCode[1] = EXIT_ERROR /\ outcome[1].by = "timeout") => created[1] = {}

\* C19, amended: a run that exits with code 1 has created no comment unless
\* the exit came while its POST was in flight; the comment of that POST may
\* still be created, and it is the only one.
C19_FailedBeforePostLeavesNone ==
  exitCode[1] = EXIT_ERROR =>
    /\ outcome[1].at # "posting" => created[1] = {} /\ postInFlight[1] = << >>
    /\ Cardinality(created[1]) <= 1
    /\ created[1] # {} => calls[1].post = 1 /\ Terminal

C19_Witness ==
  /\ exitCode[1] = EXIT_ERROR
  /\ outcome[1] = [by |-> "timeout", at |-> "posting"]
  /\ Cardinality(created[1]) = 1
  /\ created[1] \subseteq MarkerIds

\* C20: in a pass the POST of the comment is issued after the listing and after
\* every DELETE of the pass has been answered, so the comment it creates is
\* not among the comments listed, no DELETE was issued for it, and the run
\* that created it leaves it on the pull request.
C20_PostAfterCleanup ==
  /\ calls[1].post >= 1 =>
       /\ calls[1].list >= 1
       /\ calls[1].fetch >= 1
       /\ dels[1] = {}
       /\ Range(deleteLog[1]) \cap CommentIds = {}
  /\ pc[1] \in {"listing", "deleting", "fetching", "waiting", "gifSearch"} =>
       calls[1].post = 0 /\ created[1] = {}
  /\ created[1] \cap ListedIds(1) = {}
  /\ created[1] \cap Range(deleteLog[1]) = {}
  /\ created[1] \subseteq CommentIds

C20_Witness ==
  /\ outcome[1].by = "done"
  /\ Len(deleteLog[1]) >= 1
  /\ Range(deleteLog[1]) \subseteq ListedIds(1)
  /\ calls[1].del = Len(deleteLog[1])
  /\ created[1] # {}
  /\ created[1] \subseteq CommentIds

=============================================================================
